---- MODULE Spec2Model ----
(***************************************************************************)
(* Heads-up no-limit Texas Hold'em engine (backend-python/engine).         *)
(* The model follows PokerGame (game.py); SimulationGame (simulation.py)   *)
(* repeats the same betting_round / showdown / play_hand code.             *)
(* Chip amounts are Python floats in the source; every amount the model    *)
(* feeds in is a whole number, on which float arithmetic is exact.         *)
(***************************************************************************)
EXTENDS Integers, Sequences, FiniteSets, TLC

VARIABLES
    small_blind,    \* PokerGame.small_blind
    big_blind,      \* PokerGame.big_blind
    deck,           \* Deck.cards, dealt from the end
    players,        \* PokerGame.players: list index -> Player fields
    board,          \* PokerGame.board
    pot,            \* PokerGame.pot
    current_bet,    \* PokerGame.current_bet (bet-to-match of the street)
    game_phase,     \* PokerGame.game_phase
    pc,             \* position inside play_hand / betting_round
    phase,          \* argument of the running betting_round
    action_order,   \* local of betting_round
    action_count,   \* local of betting_round
    last_raiser,    \* local of betting_round (0 = None)
    both_all_in,    \* local of play_hand
    round_result,   \* what the last betting_round returned
    result,         \* what the last play_hand returned
    hands,          \* number of play_hand calls started
    stack_before,   \* history: stacks when the current hand started
    ndecisions,     \* history: policy calls made in the current round
    last_decider,   \* history: list index last asked for a decision
    answered,       \* history: has acted since the other player's last raise
    conforming,     \* history: no check was returned while facing a bet
    rh_cards,       \* rank_hand: argument cards
    rh_hole_cards,  \* rank_hand: argument hole_cards
    rh_result,      \* rank_hand: what the call returned or raised
    cp_hole_cards,  \* classify_pair_strength: argument hole_cards
    cp_board,       \* classify_pair_strength: argument board
    cp_result,      \* classify_pair_strength: what the call returned
    agent_names,    \* run_simulation: agent1_config.name, agent2_config.name
    stats,          \* run_simulation: result.agent1_stats, agent2_stats
    recorded,       \* run_simulation: hands whose result has been recorded
    won_by          \* history: hands won by each agent's player

vars == <<small_blind, big_blind, deck, players, board, pot, current_bet,
          game_phase, pc, phase, action_order, action_count, last_raiser,
          both_all_in, round_result, result, hands, stack_before,
          ndecisions, last_decider, answered, conforming,
          rh_cards, rh_hole_cards, rh_result,
          cp_hole_cards, cp_board, cp_result,
          agent_names, stats, recorded, won_by>>

\* the variables of a direct rank_hand call
rh_vars == <<rh_cards, rh_hole_cards, rh_result>>

\* the variables of a direct classify_pair_strength call
cp_vars == <<cp_hole_cards, cp_board, cp_result>>

\* the variables of run_simulation
sim_vars == <<agent_names, stats, recorded, won_by>>

----------------------------------------------------------------------------
(* Bounds of the model *)

MaxStack == 4       \* starting stacks of the small games are 1..MaxStack
MaxBet == 3         \* a policy's requested bet size is 0..MaxBet
MaxHands == 2       \* play_hand calls per behaviour
RaiseWindow == 4    \* a policy raises only in the first RaiseWindow
                    \* iterations of a round's loop

(* Program constants *)

MaxActions == 100       \* game.py:399
SkipFactor == 20        \* game.py:296

Seats == {1, 2}
Other(i) == 3 - i

Min(a, b) == IF a <= b THEN a ELSE b
Max(a, b) == IF a >= b THEN a ELSE b

----------------------------------------------------------------------------
(* Cards and deck *)

SuitOrder == <<"S", "H", "D", "C">>
RankValues == 2..14

C(r, s) == [rank |-> r, suit |-> s]

Range(s) == {s[i] : i \in DOMAIN s}

Reverse(s) == [i \in 1..Len(s) |-> s[Len(s) + 1 - i]]

\* Deck.reset: suits in order, ranks 2..A inside each suit
FullDeck ==
    [i \in 1..52 |-> C(((i - 1) % 13) + 2, SuitOrder[((i - 1) \div 13) + 1])]

\* The cards that one shuffle puts on top, in the order they are dealt:
\* two hole cards per player, burn, flop, burn, turn, burn, river.
TopBoardPlays ==
    << C(2, "H"), C(3, "D"), C(4, "C"), C(5, "H"),
       C(9, "C"), C(14, "S"), C(13, "S"), C(12, "S"),
       C(9, "D"), C(11, "S"), C(9, "H"), C(10, "S") >>

TopFirstWins ==
    << C(14, "H"), C(14, "D"), C(13, "H"), C(12, "D"),
       C(8, "C"), C(2, "S"), C(7, "D"), C(9, "C"),
       C(8, "D"), C(11, "H"), C(8, "H"), C(4, "S") >>

TopSecondWins ==
    << C(13, "H"), C(13, "D"), C(14, "H"), C(14, "D"),
       C(8, "C"), C(2, "S"), C(7, "D"), C(9, "C"),
       C(8, "D"), C(11, "H"), C(8, "H"), C(4, "S") >>

Tops == {TopBoardPlays, TopFirstWins, TopSecondWins}

\* Deck.shuffle: a permutation of the 52 cards whose end is Reverse(top)
Shuffled(top) ==
    SelectSeq(FullDeck, LAMBDA c : c \notin Range(top)) \o Reverse(top)

\* a deal that leaves the dealt cards in the deck
RemainingUntouched(d, n) == d

\* Deck.deal(n): pops n cards off the end; the first popped comes first
Dealt(d, n) == [i \in 1..n |-> d[Len(d) + 1 - i]]
Remaining(d, n) == SubSeq(d, 1, Len(d) - n)

----------------------------------------------------------------------------
(* Hand evaluator (hand_eval.py) *)

RankList(h) == [i \in DOMAIN h |-> h[i].rank]

\* A local variable: v is evaluated once and named inside F
Let(v, F(_)) == CHOOSE r \in {F(x) : x \in {v}} : TRUE

MaxOf(S) == CHOOSE m \in S : \A x \in S : x <= m
MinOf(S) == CHOOSE m \in S : \A x \in S : m <= x

\* sorted(values, reverse=True): the k-th entry is the value with fewer than
\* k larger entries and at least k entries not smaller
SortedDesc(values) ==
    Let(values, LAMBDA s :
        [k \in 1..Len(s) |->
            CHOOSE v \in Range(s) :
                /\ Cardinality({j \in DOMAIN s : s[j] > v}) < k
                /\ Cardinality({j \in DOMAIN s : s[j] >= v}) >= k])

\* sorted(values)
SortedAsc(s) == Reverse(SortedDesc(s))

\* sorted(cards, key=rank value, reverse=True): stable, so a card comes after
\* every higher card and after the equal-ranked cards listed before it
SortCardsDesc(h) ==
    LET place(i) == Cardinality({j \in DOMAIN h : h[j].rank > h[i].rank})
                    + Cardinality({j \in 1..(i - 1) : h[j].rank = h[i].rank})
                    + 1
    IN  [k \in 1..Len(h) |-> h[CHOOSE i \in DOMAIN h : place(i) = k]]

CountOf(h, r) == Cardinality({i \in DOMAIN h : h[i].rank = r})
FirstIdx(h, r) == MinOf({i \in DOMAIN h : h[i].rank = r})

\* Counter(ranks).most_common(): <<rank, count>> by count descending,
\* equal counts in order of first occurrence
MostCommon(h) ==
    LET ranks == Range(RankList(h))
        before(q, r) == \/ CountOf(h, q) > CountOf(h, r)
                        \/ /\ CountOf(h, q) = CountOf(h, r)
                           /\ FirstIdx(h, q) < FirstIdx(h, r)
        place(r) == Cardinality({q \in ranks : before(q, r)}) + 1
    IN  [k \in 1..Cardinality(ranks) |->
            LET r == CHOOSE r \in ranks : place(r) = k
            IN  <<r, CountOf(h, r)>>]

\* _is_flush: ranks high to low, or the empty list
IsFlush(h) ==
    IF Len(h) # 5 THEN <<>>
    ELSE IF Cardinality({h[i].suit : i \in DOMAIN h}) # 1 THEN <<>>
    ELSE SortedDesc(RankList(h))

\* a straight test that counts the ace of the wheel as the high card
IsStraightWheelAceHigh(h) ==
    IF Len(h) # 5 THEN 0
    ELSE Let(SortedAsc(RankList(h)), LAMBDA ranks :
             IF \A i \in 1..5 : ranks[i] = ranks[1] + i - 1 THEN ranks[5]
             ELSE IF ranks = <<2, 3, 4, 5, 14>> THEN 14
             ELSE 0)

\* _is_straight: the high card, 5 for the wheel, 0 when not a straight
IsStraight(h) ==
    IF Len(h) # 5 THEN 0
    ELSE Let(SortedAsc(RankList(h)), LAMBDA ranks :
             IF \A i \in 1..5 : ranks[i] = ranks[1] + i - 1 THEN ranks[5]
             ELSE IF ranks = <<2, 3, 4, 5, 14>> THEN 5
             ELSE 0)

\* _is_royal_flush
IsRoyalFlush(h) ==
    IF Len(h) # 5 THEN FALSE
    ELSE IF IsFlush(h) = <<>> THEN FALSE
    ELSE SortedAsc(RankList(h)) = <<10, 11, 12, 13, 14>>

\* _is_straight_flush
IsStraightFlush(h) ==
    IF Len(h) # 5 THEN 0
    ELSE IF IsFlush(h) = <<>> THEN 0
    ELSE IsStraight(h)

\* _is_quads
IsQuads(h) ==
    IF Len(h) # 5 THEN <<>>
    ELSE Let(MostCommon(h), LAMBDA counts :
             IF Len(counts) = 2 /\ counts[1][2] = 4
             THEN <<counts[1][1], counts[2][1]>>
             ELSE <<>>)

\* _is_boat
IsBoat(h) ==
    IF Len(h) # 5 THEN <<>>
    ELSE Let(MostCommon(h), LAMBDA counts :
             IF Len(counts) = 2 /\ counts[1][2] = 3 /\ counts[2][2] = 2
             THEN <<counts[1][1], counts[2][1]>>
             ELSE <<>>)

\* _is_trips
IsTrips(h) ==
    IF Len(h) # 5 THEN <<>>
    ELSE Let(MostCommon(h), LAMBDA counts :
             IF Len(counts) = 3 /\ counts[1][2] = 3
             THEN <<counts[1][1]>> \o SortedDesc(<<counts[2][1], counts[3][1]>>)
             ELSE <<>>)

\* _is_two_pair
IsTwoPair(h) ==
    IF Len(h) # 5 THEN <<>>
    ELSE Let(MostCommon(h), LAMBDA counts :
             IF Len(counts) = 3 /\ counts[1][2] = 2 /\ counts[2][2] = 2
             THEN SortedDesc(<<counts[1][1], counts[2][1]>>) \o <<counts[3][1]>>
             ELSE <<>>)

\* _is_one_pair
IsOnePair(h) ==
    IF Len(h) # 5 THEN <<>>
    ELSE Let(MostCommon(h), LAMBDA counts :
             IF Len(counts) = 4 /\ counts[1][2] = 2
             THEN <<counts[1][1]>>
                  \o SortedDesc(<<counts[2][1], counts[3][1], counts[4][1]>>)
             ELSE <<>>)

\* _get_high_card
GetHighCard(h) == SortedDesc(RankList(h))

Score(s, t) == [score |-> s, tiebreakers |-> t]

\* _evaluate_five_cards: strongest category first, first match returns
EvaluateFiveCards(cards) ==
    Let(cards, LAMBDA h :
        IF IsRoyalFlush(h) THEN Score(10, <<14, 13, 12, 11, 10>>)
        ELSE IF IsStraightFlush(h) # 0 THEN Score(9, <<IsStraightFlush(h)>>)
        ELSE IF IsQuads(h) # <<>> THEN Score(8, IsQuads(h))
        ELSE IF IsBoat(h) # <<>> THEN Score(7, IsBoat(h))
        ELSE IF IsFlush(h) # <<>> THEN Score(6, IsFlush(h))
        ELSE IF IsStraight(h) # 0 THEN Score(5, <<IsStraight(h)>>)
        ELSE IF IsTrips(h) # <<>> THEN Score(4, IsTrips(h))
        ELSE IF IsTwoPair(h) # <<>> THEN Score(3, IsTwoPair(h))
        ELSE IF IsOnePair(h) # <<>> THEN Score(2, IsOnePair(h))
        ELSE Score(1, GetHighCard(h)))

\* Python list comparison a > b
LexGT(a, b) ==
    \E k \in 1..Len(a) :
        /\ \A j \in 1..(k - 1) : j <= Len(b) /\ a[j] = b[j]
        /\ (k > Len(b) \/ a[k] > b[k])

\* a comparison that looks at the category only
ScoreGTCategoryOnly(x, y) == x.score > y.score

\* Python tuple comparison (score, tiebreakers) > (score, tiebreakers)
ScoreGT(x, y) ==
    \/ x.score > y.score
    \/ x.score = y.score /\ LexGT(x.tiebreakers, y.tiebreakers)

\* itertools.combinations(range(n), 5) as increasing index tuples
Combos(n) ==
    UNION { UNION { UNION { UNION {
        { <<a, b, c, d, e>> : e \in (d + 1)..n }
        : d \in (c + 1)..(n - 1) }
        : c \in (b + 1)..(n - 2) }
        : b \in (a + 1)..(n - 3) }
        : a \in 1..(n - 4) }

Pick(cards, t) == [i \in 1..5 |-> cards[t[i]]]

\* a selection that takes the first five cards listed
GetBestFirstFive(cards) == SortCardsDesc(SubSeq(cards, 1, 5))

\* _get_best_five_card_hand: the first combination, in combinations order,
\* that no other combination beats (the loop replaces only on strict >)
GetBestFiveCardHand(cards) ==
    IF Len(cards) = 5 THEN SortCardsDesc(cards)
    ELSE Let([t \in Combos(Len(cards)) |->
                 EvaluateFiveCards(Pick(cards, t))],
             LAMBDA scores :
                 LET first == CHOOSE t \in DOMAIN scores :
                         \A u \in DOMAIN scores :
                             /\ ~ScoreGT(scores[u], scores[t])
                             /\ scores[u] = scores[t]
                                    => (t = u \/ LexGT(u, t))
                 IN  SortCardsDesc(Pick(cards, first)))

\* rank_hand: (score, tiebreakers) of the best five cards
RankHandOf(cards) ==
    Let(cards, LAMBDA cs : EvaluateFiveCards(GetBestFiveCardHand(cs)))

\* The seven-card hands the shuffles of this model can bring to a showdown
\* (hole cards followed by the board), evaluated once
ShowdownHands ==
    { SubSeq(top, 2 * i - 1, 2 * i)
        \o SubSeq(top, 6, 8) \o <<top[10], top[12]>> :
      top \in Tops, i \in Seats }

RankHandTable == [cards \in ShowdownHands |-> RankHandOf(cards)]

RankHand(cards) ==
    IF cards \in ShowdownHands THEN RankHandTable[cards] ELSE RankHandOf(cards)

\* hole_cards=None, and hole_cards given as a list
None == [given |-> FALSE, cards |-> <<>>]
HoleCards(h) == [given |-> TRUE, cards |-> h]

\* metadata = {}: no key is set
NoMetadata ==
    [has_chop |-> FALSE, board_chop |-> FALSE, hole_cards_play |-> FALSE,
     trips_type |-> "absent"]

\* the outcomes of a rank_hand call: not called yet, ValueError raised,
\* (score, tiebreakers, metadata) returned
NotCalled ==
    [status |-> "pending", error |-> "", score |-> 0, tiebreakers |-> <<>>,
     metadata |-> NoMetadata]
Raised(message) == [NotCalled EXCEPT !.status = "error", !.error = message]
Returned(s, metadata) ==
    [status |-> "ok", error |-> "", score |-> s.score,
     tiebreakers |-> s.tiebreakers, metadata |-> metadata]

\* the validation without the duplicate check
ValidationErrorNoDuplicateCheck(cards, hole) ==
    IF Len(cards) = 0 THEN "Cannot rank empty hand"
    ELSE IF Len(cards) < 5 THEN "Need at least 5 cards to rank a hand"
    ELSE IF hole.given /\ Len(hole.cards) # 2
    THEN "hole_cards must contain exactly 2 cards"
    ELSE IF hole.given /\ ~(Range(hole.cards) \subseteq Range(cards))
    THEN "hole_cards must be a subset of cards"
    ELSE ""

\* rank_hand, the checks before the evaluation: the message of the
\* ValueError raised, "" when none is raised
ValidationError(cards, hole) ==
    IF Len(cards) = 0 THEN "Cannot rank empty hand"
    ELSE IF Len(cards) < 5 THEN "Need at least 5 cards to rank a hand"
    ELSE IF Cardinality(Range(cards)) # Len(cards)
    THEN "Duplicate cards detected"
    ELSE IF hole.given /\ Len(hole.cards) # 2
    THEN "hole_cards must contain exactly 2 cards"
    ELSE IF hole.given /\ ~(Range(hole.cards) \subseteq Range(cards))
    THEN "hole_cards must be a subset of cards"
    ELSE ""

\* board_cards = [c for c in cards if c not in hole_set]
BoardCards(cards, hole) ==
    SelectSeq(cards, LAMBDA c : c \notin Range(hole.cards))

\* rank_hand, the board-chop keys: set when hole cards are given and at
\* least five cards are left for the board
ChopMetadata(cards, hole, best_hand) ==
    IF hole.given /\ Len(BoardCards(cards, hole)) >= 5
    THEN LET chop == Range(best_hand) \subseteq Range(BoardCards(cards, hole))
         IN  [NoMetadata EXCEPT !.has_chop = TRUE, !.board_chop = chop,
                                !.hole_cards_play = ~chop]
    ELSE NoMetadata

\* _determine_trips_type
DetermineTripsType(best_hand, hole_cards, all_cards) ==
    LET threes == {r \in RankValues : CountOf(best_hand, r) = 3}
    IN  IF threes = {} THEN "trips"
        ELSE IF CountOf(hole_cards, CHOOSE r \in threes : TRUE) = 2
        THEN "set"
        ELSE "trips"

\* rank_hand(cards, hole_cards) as a whole
RankHandCall(cards, hole) ==
    IF ValidationError(cards, hole) # ""
    THEN Raised(ValidationError(cards, hole))
    ELSE Let(GetBestFiveCardHand(cards), LAMBDA best_hand :
             Let(EvaluateFiveCards(best_hand), LAMBDA s :
                 Returned(s,
                     [ChopMetadata(cards, hole, best_hand) EXCEPT
                         !.trips_type =
                             IF s.score = 4 /\ hole.given
                             THEN DetermineTripsType(best_hand, hole.cards,
                                                     cards)
                             ELSE "absent"])))

----------------------------------------------------------------------------
(* Player (game.py) *)

\* Player.__init__ (SimulationPlayer adds brain_module).  A brain module is
\* represented by the decisions it can return: "any" returns any of fold,
\* check, call, raise at any time; "passive" never returns raise.
NewPlayer(stack, position, brain) ==
    [stack |-> stack, position |-> position, hole_cards |-> <<>>,
     current_bet |-> 0, total_invested |-> 0,
     is_active |-> TRUE, is_all_in |-> FALSE, brain_module |-> brain]

\* Player.reset_for_new_hand
PlayerReset(p) ==
    [p EXCEPT !.hole_cards = <<>>, !.current_bet = 0, !.total_invested = 0,
              !.is_active = TRUE, !.is_all_in = FALSE]

\* post_blind that records the full blind although the stack paid less
PostBlindUnclamped(p, amount) ==
    LET actual_bet == Min(amount, p.stack)
    IN  [p EXCEPT !.stack = @ - actual_bet,
                  !.current_bet = amount,
                  !.total_invested = @ + amount,
                  !.is_all_in = IF p.stack - actual_bet = 0 THEN TRUE ELSE @]

\* a blind posting that never marks the player all-in
PostBlindNoAllIn(p, amount) ==
    LET actual_bet == Min(amount, p.stack)
    IN  [p EXCEPT !.stack = @ - actual_bet,
                  !.current_bet = actual_bet,
                  !.total_invested = @ + actual_bet]

\* Player.post_blind
PostBlind(p, amount) ==
    LET actual_bet == Min(amount, p.stack)
    IN  [p EXCEPT !.stack = @ - actual_bet,
                  !.current_bet = actual_bet,
                  !.total_invested = @ + actual_bet,
                  !.is_all_in = IF p.stack - actual_bet = 0 THEN TRUE ELSE @]

\* a bet that is not clamped to the stack
BetUnclamped(p, amount) ==
    LET additional == amount - p.current_bet
    IN  [p EXCEPT !.stack = @ - additional,
                  !.current_bet = @ + additional,
                  !.total_invested = @ + additional,
                  !.is_all_in = IF p.stack - additional = 0 THEN TRUE ELSE @]

\* a bet that is not added to the player's total for the hand
BetNotInvested(p, amount) ==
    LET additional == amount - p.current_bet
        actual_additional == Min(additional, p.stack)
    IN  [p EXCEPT !.stack = @ - actual_additional,
                  !.current_bet = @ + actual_additional,
                  !.is_all_in = IF p.stack - actual_additional = 0
                                THEN TRUE ELSE @]

\* a bet that never marks the player all-in
BetNoAllIn(p, amount) ==
    LET additional == amount - p.current_bet
        actual_additional == Min(additional, p.stack)
    IN  [p EXCEPT !.stack = @ - actual_additional,
                  !.current_bet = @ + actual_additional,
                  !.total_invested = @ + actual_additional]

\* Player.bet: amount is the total street bet asked for
Bet(p, amount) ==
    LET additional == amount - p.current_bet
        actual_additional == Min(additional, p.stack)
    IN  [p EXCEPT !.stack = @ - actual_additional,
                  !.current_bet = @ + actual_additional,
                  !.total_invested = @ + actual_additional,
                  !.is_all_in = IF p.stack - actual_additional = 0
                                THEN TRUE ELSE @]

\* Player.fold
Fold(p) == [p EXCEPT !.is_active = FALSE]

\* a win_pot that credits half of the amount
WinPotHalf(p, amount) == [p EXCEPT !.stack = @ + (amount \div 2)]

\* Player.win_pot
WinPot(p, amount) == [p EXCEPT !.stack = @ + amount]

----------------------------------------------------------------------------
(* PokerGame (game.py) *)

NoResult == [winner |-> 0, amount_won |-> 0, description |-> "none"]

\* a rotation filter that forgets "and not p.is_all_in"
InRotationActiveOnly(ps, i) == ps[i].is_active

\* the filter of the action order: p.is_active and not p.is_all_in
InRotation(ps, i) == ps[i].is_active /\ ~ps[i].is_all_in

\* an action order that forgets reverse=True before the flop
ActionOrderUnreversed(ps, ph) ==
    LET eligible == SelectSeq(<<1, 2>>, LAMBDA i : InRotation(ps, i))
    IN  IF Len(eligible) < 2 THEN eligible
        ELSE IF ps[1].position <= ps[2].position THEN <<1, 2>> ELSE <<2, 1>>

\* sorted(active non-all-in players, key=position), reversed preflop
ActionOrderOf(ps, ph) ==
    LET eligible == SelectSeq(<<1, 2>>, LAMBDA i : InRotation(ps, i))
    IN  IF Len(eligible) < 2 THEN eligible
        ELSE IF ph = "preflop"
             THEN IF ps[1].position >= ps[2].position
                  THEN <<1, 2>> ELSE <<2, 1>>
             ELSE IF ps[1].position <= ps[2].position
                  THEN <<1, 2>> ELSE <<2, 1>>

\* action_order.index(x), counted from 0
IndexOf(order, x) == MinOf({k \in DOMAIN order : order[k] = x}) - 1

\* next(p for p in self.players if ...)
FirstSeat(S) == MinOf(S)

ActiveSeats(ps) == {i \in Seats : ps[i].is_active}

HandName(score) ==
    CASE score = 10 -> "Royal Flush" [] score = 9 -> "Straight Flush"
      [] score = 8 -> "Quads"        [] score = 7 -> "Boat"
      [] score = 6 -> "Flush"        [] score = 5 -> "Straight"
      [] score = 4 -> "Trips"        [] score = 3 -> "Two Pair"
      [] score = 2 -> "One Pair"     [] score = 1 -> "High Card"
      [] OTHER -> "Unknown"

\* The pc a betting round of street ph returns to in play_hand
AfterStreet(ph) ==
    CASE ph = "preflop" -> "after_preflop" [] ph = "flop" -> "after_flop"
      [] ph = "turn" -> "after_turn"       [] ph = "river" -> "after_river"

\* The games explored: blinds 1/2 with every pair of small stacks and
\* unrestricted policies, and test_game's 1000/1000 game at blinds 5/10
\* with policies that never raise.
Games ==
    { [blinds |-> <<1, 2>>, stacks |-> <<a, b>>, brain |-> "any"] :
        a \in 1..MaxStack, b \in 1..MaxStack }
    \cup { [blinds |-> <<5, 10>>, stacks |-> <<1000, 1000>>,
            brain |-> "passive"] }

GameInit(games) ==
    /\ \E cfg \in games :
          /\ small_blind = cfg.blinds[1]
          /\ big_blind = cfg.blinds[2]
          /\ players = [i \in Seats |->
                          NewPlayer(cfg.stacks[i], i - 1, cfg.brain)]
          /\ stack_before = [i \in Seats |-> cfg.stacks[i]]
    /\ deck = FullDeck
    /\ board = <<>>
    /\ pot = 0
    /\ current_bet = 0
    /\ game_phase = "preflop"
    /\ pc = "ready"
    /\ phase = "preflop"
    /\ action_order = <<>>
    /\ action_count = 0
    /\ last_raiser = 0
    /\ both_all_in = FALSE
    /\ round_result = "none"
    /\ result = NoResult
    /\ hands = 0
    /\ ndecisions = 0
    /\ last_decider = 0
    /\ answered = [i \in Seats |-> FALSE]
    /\ conforming = TRUE

\* rank_hand is not called from outside the game
NoRankHandCall ==
    /\ rh_cards = <<>>
    /\ rh_hole_cards = None
    /\ rh_result = NotCalled

\* classify_pair_strength is not called from outside the game
NoClassifyCall ==
    /\ cp_hole_cards = <<>>
    /\ cp_board = <<>>
    /\ cp_result = "pending"

\* SimulationStats(agent_name=...): the counters run_simulation sums up
NewStats == [hands_won |-> 0, hands_lost |-> 0, total_profit |-> 0]

\* run_simulation has recorded nothing for the agents named names
SimulationInit(names) ==
    /\ agent_names = names
    /\ stats = [i \in Seats |-> NewStats]
    /\ recorded = 0
    /\ won_by = [i \in Seats |-> 0]

\* a game is constructed; nothing else has been called
Init ==
    /\ GameInit(Games)
    /\ NoRankHandCall
    /\ NoClassifyCall
    /\ SimulationInit(<<"TAG Agent", "Fish">>)

\* The caller moves the button between hands (test_game, run_simulation)
SwapPositions ==
    /\ pc = "ready"
    /\ hands < MaxHands
    /\ players' = [i \in Seats |->
                     [players[i] EXCEPT !.position = players[Other(i)].position]]
    /\ UNCHANGED <<rh_vars, cp_vars, sim_vars, small_blind, big_blind, deck, board, pot, current_bet,
                   game_phase, pc, phase, action_order, action_count,
                   last_raiser, both_all_in, round_result, result, hands,
                   stack_before, ndecisions, last_decider, answered,
                   conforming>>

\* play_hand up to the first betting round, for the players ps of the game:
\* reset_for_new_hand, post_blinds, deal_hole_cards
StartHandWith(ps) ==
    /\ pc = "ready"
    /\ hands < MaxHands
    /\ \E top \in Tops :
          LET shuffled == Shuffled(top)
              fresh == [i \in Seats |-> PlayerReset(ps[i])]
              button == FirstSeat({i \in Seats : fresh[i].position = 1})
              bb == FirstSeat({i \in Seats : fresh[i].position = 0})
              posted1 == [fresh EXCEPT ![button] = PostBlind(@, small_blind)]
              sb_posted == posted1[button].current_bet
              posted2 == [posted1 EXCEPT ![bb] = PostBlind(@, big_blind)]
              bb_posted == posted2[bb].current_bet
          IN  /\ players' = [i \in Seats |->
                   [posted2[i] EXCEPT !.hole_cards =
                       Dealt(Remaining(shuffled, 2 * (i - 1)), 2)]]
              /\ deck' = Remaining(shuffled, 4)
              /\ pot' = sb_posted + bb_posted
              /\ current_bet' = bb_posted
    /\ board' = <<>>
    /\ game_phase' = "preflop"
    /\ phase' = "preflop"
    /\ pc' = "round"
    /\ hands' = hands + 1
    /\ stack_before' = [i \in Seats |-> ps[i].stack]
    /\ round_result' = "none"
    /\ result' = NoResult
    /\ both_all_in' = FALSE
    /\ conforming' = TRUE
    /\ UNCHANGED <<rh_vars, cp_vars, small_blind, big_blind, action_order, action_count,
                   last_raiser, ndecisions, last_decider, answered>>

\* play_hand called on the players the game holds
StartHand == StartHandWith(players) /\ UNCHANGED sim_vars

ZeroBets(ps) == [i \in Seats |-> [ps[i] EXCEPT !.current_bet = 0]]

\* an early return taken only when nobody at all is in the rotation
SkipBettingWhenEmpty(order) == Len(order) = 0

\* if len(action_order) <= 1: return True
SkipBetting(order) == Len(order) <= 1

\* betting_round up to the loop: street reset, action order, early return
BeginRound ==
    /\ pc = "round"
    /\ LET ps == IF phase # "preflop" THEN ZeroBets(players) ELSE players
           order == ActionOrderOf(ps, phase)
       IN  /\ players' = ps
           /\ current_bet' = IF phase # "preflop" THEN 0 ELSE current_bet
           /\ action_order' = order
           /\ IF SkipBetting(order)
              THEN /\ round_result' = "continue"
                   /\ pc' = AfterStreet(phase)
              ELSE /\ round_result' = "none"
                   /\ pc' = "loop"
    /\ action_count' = 0
    /\ last_raiser' = 0
    /\ ndecisions' = 0
    /\ last_decider' = 0
    /\ answered' = [i \in Seats |-> FALSE]
    /\ UNCHANGED <<rh_vars, cp_vars, sim_vars, small_blind, big_blind, deck, board, pot, game_phase,
                   phase, both_all_in, result, hands, stack_before,
                   conforming>>

CurrentPlayer == action_order[(action_count % Len(action_order)) + 1]

AllMatched ==
    \A i \in Seats : \/ players[i].current_bet = current_bet
                     \/ ~players[i].is_active
                     \/ players[i].is_all_in

\* the loop's "round is complete" test
RoundComplete ==
    /\ AllMatched
    /\ action_count >= Len(action_order)
    /\ IF last_raiser = 0 THEN TRUE
       ELSE action_count >=
                Len(action_order) + IndexOf(action_order, last_raiser)

NoOneCanAct == {i \in Seats : InRotation(players, i)} = {}

\* a loop that asks the current player even when that player is all-in
MustActIgnoringAllIn ==
    /\ pc = "loop"
    /\ ~RoundComplete
    /\ ~NoOneCanAct

\* the current player is asked for a decision in this iteration
MustAct ==
    /\ pc = "loop"
    /\ ~players[CurrentPlayer].is_all_in
    /\ ~RoundComplete
    /\ ~NoOneCanAct

\* leaving the loop by break: bets are cleared and True is returned
ReturnTrue ==
    /\ players' = ZeroBets(players)
    /\ round_result' = "continue"
    /\ pc' = AfterStreet(phase)

\* loop iteration on an all-in current player
SkipAllIn ==
    /\ pc = "loop"
    /\ players[CurrentPlayer].is_all_in
    /\ action_count' = action_count + 1
    /\ IF action_count + 1 > Len(action_order) * SkipFactor
       THEN ReturnTrue
       ELSE UNCHANGED <<players, round_result, pc>>
    /\ UNCHANGED <<rh_vars, cp_vars, sim_vars, small_blind, big_blind, deck, board, pot, current_bet,
                   game_phase, phase, action_order, last_raiser, both_all_in,
                   result, hands, stack_before, ndecisions, last_decider,
                   answered, conforming>>

\* loop iteration that finds the round complete
CompleteRound ==
    /\ pc = "loop"
    /\ ~players[CurrentPlayer].is_all_in
    /\ RoundComplete \/ NoOneCanAct
    /\ ReturnTrue
    /\ UNCHANGED <<rh_vars, cp_vars, sim_vars, small_blind, big_blind, deck, board, pot, current_bet,
                   game_phase, phase, action_order, action_count, last_raiser,
                   both_all_in, result, hands, stack_before, ndecisions,
                   last_decider, answered, conforming>>

\* an overrun test that allows two actions per player, not MaxActions
OverrunPerRotation(count) == count > Len(action_order) * 2

\* the safety stop after an action: "if action_count > 100: raise"
Overrun(count) == count > MaxActions

\* an iteration that asks the policy but does not count the action
ActedNotCounted(cur) ==
    /\ action_count' = action_count
    /\ pc' = "loop"
    /\ ndecisions' = ndecisions + 1
    /\ last_decider' = cur

\* end of an iteration in which the player acted
Acted(cur) ==
    /\ action_count' = action_count + 1
    /\ pc' = IF Overrun(action_count + 1) THEN "error" ELSE "loop"
    /\ ndecisions' = ndecisions + 1
    /\ last_decider' = cur

\* a fold that forgets "return False" and lets the loop go on
PolicyFoldContinues ==
    /\ MustAct
    /\ LET cur == CurrentPlayer
       IN  /\ players' = [players EXCEPT ![cur] = Fold(@)]
           /\ Acted(cur)
           /\ answered' = [answered EXCEPT ![cur] = TRUE]
    /\ UNCHANGED <<rh_vars, cp_vars, sim_vars, small_blind, big_blind, deck, board, pot, current_bet,
                   game_phase, phase, action_order, last_raiser, both_all_in,
                   round_result, result, hands, stack_before, conforming>>

\* the policy returns "fold"
PolicyFold ==
    /\ MustAct
    /\ LET cur == CurrentPlayer
       IN  /\ players' = [players EXCEPT ![cur] = Fold(@)]
           /\ ndecisions' = ndecisions + 1
           /\ last_decider' = cur
           /\ answered' = [answered EXCEPT ![cur] = TRUE]
    /\ round_result' = "folded"
    /\ pc' = "folded"
    /\ UNCHANGED <<rh_vars, cp_vars, sim_vars, small_blind, big_blind, deck, board, pot, current_bet,
                   game_phase, phase, action_order, action_count, last_raiser,
                   both_all_in, result, hands, stack_before, conforming>>

\* the policy returns "check"
PolicyCheck ==
    /\ MustAct
    /\ LET cur == CurrentPlayer
           facing_bet == players[cur].current_bet < current_bet
       IN  /\ Acted(cur)
           /\ answered' = [answered EXCEPT ![cur] = TRUE]
           /\ conforming' = (conforming /\ ~facing_bet)
    /\ UNCHANGED <<rh_vars, cp_vars, sim_vars, small_blind, big_blind, deck, players, board, pot,
                   current_bet, game_phase, phase, action_order, last_raiser,
                   both_all_in, round_result, result, hands, stack_before>>

\* the policy returns "call"
PolicyCall ==
    /\ MustAct
    /\ LET cur == CurrentPlayer
           call_amount == current_bet
           old_bet == players[cur].current_bet
           after == Bet(players[cur], call_amount)
           additional == after.current_bet - old_bet
       IN  /\ players' = [players EXCEPT ![cur] = after]
           /\ pot' = pot + additional
           /\ Acted(cur)
           /\ answered' = [answered EXCEPT ![cur] = TRUE]
    /\ UNCHANGED <<rh_vars, cp_vars, sim_vars, small_blind, big_blind, deck, board, current_bet,
                   game_phase, phase, action_order, last_raiser, both_all_in,
                   round_result, result, hands, stack_before, conforming>>

\* a raise target without the minimum-raise floor
RaiseToNoFloor(bet_size, to_match) == bet_size

\* raise_to = max(bet_size, self.current_bet * 2)
RaiseTo(bet_size, to_match) == Max(bet_size, to_match * 2)

\* the policy returns "raise" with bet size bet_size
PolicyRaise(bet_size) ==
    /\ MustAct
    /\ players[CurrentPlayer].brain_module = "any"
    /\ action_count < RaiseWindow
    /\ LET cur == CurrentPlayer
           raise_to == RaiseTo(bet_size, current_bet)
           old_bet == players[cur].current_bet
           after == Bet(players[cur], raise_to)
           additional == after.current_bet - old_bet
       IN  /\ players' = [players EXCEPT ![cur] = after]
           /\ pot' = pot + additional
           /\ current_bet' = after.current_bet
           /\ last_raiser' = cur
           /\ Acted(cur)
           /\ answered' = [answered EXCEPT ![cur] = TRUE, ![Other(cur)] = FALSE]
    /\ UNCHANGED <<rh_vars, cp_vars, sim_vars, small_blind, big_blind, deck, board, game_phase, phase,
                   action_order, both_all_in, round_result, result, hands,
                   stack_before, conforming>>

\* award_pot
AwardPot(ps, winner) == [ps EXCEPT ![winner] = WinPot(@, pot)]

\* a winner lookup that takes the first listed player, active or not
FoldWinnerFirstListed(ps) == FirstSeat(Seats)

\* winner = next(p for p in self.players if p.is_active)
FoldWinner(ps) == FirstSeat(ActiveSeats(ps))

\* play_hand after a betting round returned False
AwardFold ==
    /\ pc = "folded"
    /\ LET winner == FoldWinner(players)
       IN  /\ players' = AwardPot(players, winner)
           /\ result' = [winner |-> winner, amount_won |-> pot,
                         description |-> "opponent folded"]
    /\ pot' = 0
    /\ pc' = "ready"
    /\ UNCHANGED <<rh_vars, cp_vars, sim_vars, small_blind, big_blind, deck, board, current_bet,
                   game_phase, phase, action_order, action_count, last_raiser,
                   both_all_in, round_result, hands, stack_before, ndecisions,
                   last_decider, answered, conforming>>

\* one street of play_hand: deal n board cards after a burn, then either
\* enter the street's betting round or go on to the next street
DealStreet(from, street, n, all_in) ==
    /\ pc = from
    /\ IF Cardinality(ActiveSeats(players)) > 1
       THEN /\ board' = board \o Dealt(Remaining(deck, 1), n)
            /\ deck' = Remaining(deck, 1 + n)
            /\ game_phase' = street
            /\ IF ~all_in
               THEN pc' = "round" /\ phase' = street
               ELSE pc' = AfterStreet(street) /\ phase' = phase
       ELSE /\ pc' = AfterStreet(street)
            /\ UNCHANGED <<board, deck, game_phase, phase>>
    /\ both_all_in' = all_in
    /\ UNCHANGED <<rh_vars, cp_vars, sim_vars, small_blind, big_blind, players, pot, current_bet,
                   action_order, action_count, last_raiser, round_result,
                   result, hands, stack_before, ndecisions, last_decider,
                   answered, conforming>>

\* deal_flop; both_all_in is computed here, once per hand
DealFlop ==
    DealStreet("after_preflop", "flop", 3,
               \A i \in Seats : players[i].is_all_in \/ ~players[i].is_active)

\* a turn that is dealt under the river's street name
DealTurnAsRiver == DealStreet("after_flop", "river", 1, both_all_in)

\* deal_turn
DealTurn == DealStreet("after_flop", "turn", 1, both_all_in)

\* deal_river
DealRiver == DealStreet("after_turn", "river", 1, both_all_in)

\* showdown: (winner, hand description)
ShowdownOf(ps) ==
    LET active == ActiveSeats(ps)
        scoreOf(i) == RankHand(ps[i].hole_cards \o board)
    IN  IF Cardinality(active) = 1
        THEN <<FirstSeat(active), "opponent folded">>
        ELSE IF ScoreGT(scoreOf(2), scoreOf(1))
             THEN <<2, HandName(scoreOf(2).score)>>
             ELSE <<1, HandName(scoreOf(1).score)>>

\* play_hand's last step: showdown and award_pot
Showdown ==
    /\ pc = "after_river"
    /\ LET sd == ShowdownOf(players)
       IN  /\ players' = AwardPot(players, sd[1])
           /\ result' = [winner |-> sd[1], amount_won |-> pot,
                         description |-> sd[2]]
    /\ game_phase' = "showdown"
    /\ pot' = 0
    /\ pc' = "ready"
    /\ UNCHANGED <<rh_vars, cp_vars, sim_vars, small_blind, big_blind, deck, board, current_bet, phase,
                   action_order, action_count, last_raiser, both_all_in,
                   round_result, hands, stack_before, ndecisions,
                   last_decider, answered, conforming>>

Next ==
    \/ SwapPositions
    \/ StartHand
    \/ BeginRound
    \/ SkipAllIn
    \/ CompleteRound
    \/ PolicyFold
    \/ PolicyCheck
    \/ PolicyCall
    \/ \E bet_size \in 0..MaxBet : PolicyRaise(bet_size)
    \/ AwardFold
    \/ DealFlop
    \/ DealTurn
    \/ DealRiver
    \/ Showdown

Spec == Init /\ [][Next]_vars

----------------------------------------------------------------------------
(* rank_hand called directly, on lists of cards drawn from a small deck *)

MaxCards == 7       \* the lists ranked have up to MaxCards cards
WideDeck == 9       \* hole cards and lists of more than five cards are
                    \* drawn from the first WideDeck cards of EvalDeck

EvalDeck ==
    << C(14, "S"), C(2, "S"), C(3, "S"), C(4, "S"), C(5, "H"),
       C(6, "H"), C(5, "S"), C(6, "D"), C(5, "D"), C(13, "D"),
       C(13, "S"), C(12, "S"), C(11, "S"), C(9, "S"), C(10, "S") >>

DeckIndex(c) == CHOOSE i \in DOMAIN EvalDeck : EvalDeck[i] = c

\* the lists of k cards out of the first n of EvalDeck, in deck order
RECURSIVE Lists(_, _)
Lists(n, k) ==
    IF k = 0 THEN {<<>>}
    ELSE UNION { { Append(s, EvalDeck[j]) :
                     j \in (IF s = <<>> THEN 1
                            ELSE DeckIndex(s[Len(s)]) + 1)..n }
                 : s \in Lists(n, k - 1) }

FiveCardLists == Lists(Len(EvalDeck), 5)
WideLists == UNION { Lists(WideDeck, k) : k \in 6..MaxCards }
NarrowLists == UNION { Lists(WideDeck, k) : k \in 5..(MaxCards - 1) }

Orders(s) == {s, Reverse(s)}

\* cards of the deck that are not in s, in deck order
Outside(s) == SelectSeq(EvalDeck, LAMBDA c : c \notin Range(s))

Input(cards, hole) == [cards |-> cards, hole_cards |-> hole]

\* lists rank_hand accepts: without hole cards, and with the first two or
\* the last two cards of the list as the hole cards
ValidInputs ==
    { Input(o, None)
        : o \in UNION { Orders(s) : s \in FiveCardLists \cup WideLists } }
    \cup UNION { { Input(o, HoleCards(SubSeq(o, 1, 2))),
                   Input(o, HoleCards(SubSeq(o, Len(o) - 1, Len(o)))) }
        : o \in UNION { Orders(s) : s \in NarrowLists \cup WideLists } }

\* lists rank_hand rejects: too short, a card twice, hole cards of the
\* wrong number or not in the list
InvalidInputs ==
    UNION { { Input(SubSeq(EvalDeck, 1, n), None),
              Input(SubSeq(EvalDeck, 1, n),
                    HoleCards(SubSeq(EvalDeck, 1, 2))) } : n \in 0..4 }
    \cup UNION { { Input(Append(s, s[1]), None),
                   Input(Append(s, s[Len(s)]), HoleCards(SubSeq(s, 1, 2))),
                   Input([s EXCEPT ![Len(s)] = s[1]], None),
                   Input(s, HoleCards(<<s[1], Outside(s)[1]>>)),
                   Input(s, HoleCards(SubSeq(Outside(s), 1, 2))),
                   Input(s, HoleCards(<<>>)),
                   Input(s, HoleCards(SubSeq(s, 1, 1))),
                   Input(s, HoleCards(SubSeq(s, 1, 3))) }
                 : s \in NarrowLists }

RankHandInputs == ValidInputs \cup InvalidInputs

game_vars ==
    <<small_blind, big_blind, deck, players, board, pot, current_bet,
      game_phase, pc, phase, action_order, action_count, last_raiser,
      both_all_in, round_result, result, hands, stack_before,
      ndecisions, last_decider, answered, conforming>>

\* no hand is played; one list of cards is about to be ranked
EvalInit ==
    /\ GameInit({CHOOSE cfg \in Games : TRUE})
    /\ \E input \in RankHandInputs :
          /\ rh_cards = input.cards
          /\ rh_hole_cards = input.hole_cards
    /\ rh_result = NotCalled
    /\ NoClassifyCall
    /\ SimulationInit(<<"TAG Agent", "Fish">>)

\* rank_hand(rh_cards, rh_hole_cards)
CallRankHand ==
    /\ rh_result.status = "pending"
    /\ rh_result' = RankHandCall(rh_cards, rh_hole_cards)
    /\ UNCHANGED <<game_vars, cp_vars, sim_vars, rh_cards, rh_hole_cards>>

EvalNext == CallRankHand

SpecEval == EvalInit /\ [][EvalNext]_vars

----------------------------------------------------------------------------
(* classify_pair_strength (strength.py, brain.py) called directly *)

\* sorted(set(ranks), reverse=True): the distinct ranks, highest first
DistinctDesc(S) ==
    [k \in 1..Cardinality(S) |->
        CHOOSE r \in S : Cardinality({q \in S : q > r}) = k - 1]

\* the loop "for hole_card in hole_cards": the first hole card whose rank is
\* on the board decides
MatchedPair(hole_cards, board_ranks) ==
    LET of(hole_rank) ==
            IF hole_rank = board_ranks[1] THEN "top_pair"
            ELSE IF Len(board_ranks) > 1 /\ hole_rank = board_ranks[2]
            THEN "second_pair"
            ELSE IF Len(board_ranks) > 2 /\ hole_rank = board_ranks[3]
            THEN "third_pair"
            ELSE IF hole_rank \in Range(board_ranks) THEN "underpair"
            ELSE ""
    IN  IF of(hole_cards[1].rank) # "" THEN of(hole_cards[1].rank)
        ELSE IF of(hole_cards[2].rank) # "" THEN of(hole_cards[2].rank)
        ELSE "no_pair"

\* the pocket-pair branch
PocketPair(pair_rank, board_ranks) ==
    IF pair_rank > board_ranks[1] THEN "overpair"
    ELSE IF /\ Len(board_ranks) > 1
            /\ board_ranks[1] > pair_rank
            /\ pair_rank > board_ranks[2]
    THEN "second_pair"
    ELSE IF /\ Len(board_ranks) > 2
            /\ board_ranks[2] > pair_rank
            /\ pair_rank > board_ranks[3]
    THEN "third_pair"
    ELSE "underpair"

\* classify_pair_strength(hole_cards, board)
ClassifyPairStrength(hole_cards, b) ==
    IF b = <<>> THEN "no_pair"
    ELSE LET board_ranks == DistinctDesc(Range(RankList(b)))
         IN  IF hole_cards[1].rank = hole_cards[2].rank
             THEN PocketPair(hole_cards[1].rank, board_ranks)
             ELSE MatchedPair(hole_cards, board_ranks)

\* the cards boards are drawn from, and the cards hole cards are drawn from
BoardDeck ==
    << C(14, "S"), C(13, "D"), C(12, "C"), C(3, "H"), C(2, "C"),
       C(13, "C"), C(7, "D") >>

HoleDeck ==
    << C(14, "H"), C(13, "H"), C(12, "H"), C(3, "D"), C(2, "H"),
       C(9, "S"), C(9, "D"), C(5, "S") >>

\* the cards of BoardDeck at the positions in P, in deck order
BoardOf(P) ==
    LET n == Cardinality(P)
    IN  [k \in 1..n |->
            BoardDeck[CHOOSE i \in P : Cardinality({j \in P : j < i}) = k - 1]]

\* boards of the flop, the turn and the river, in two orders, and the empty
\* board
Boards ==
    {<<>>} \cup
    UNION { Orders(BoardOf(P))
              : P \in {P \in SUBSET DOMAIN BoardDeck :
                          Cardinality(P) \in 3..5} }

\* two different hole cards, in both orders
HolePairs ==
    { <<HoleDeck[p[1]], HoleDeck[p[2]]>> :
        p \in {p \in (DOMAIN HoleDeck) \X (DOMAIN HoleDeck) : p[1] # p[2]} }

\* no hand is played; one pair of hole cards is about to be classified
PairInit ==
    /\ GameInit({CHOOSE cfg \in Games : TRUE})
    /\ NoRankHandCall
    /\ SimulationInit(<<"TAG Agent", "Fish">>)
    /\ cp_hole_cards \in HolePairs
    /\ cp_board \in Boards
    /\ cp_result = "pending"

\* classify_pair_strength(cp_hole_cards, cp_board)
CallClassify ==
    /\ cp_result = "pending"
    /\ cp_result' = ClassifyPairStrength(cp_hole_cards, cp_board)
    /\ UNCHANGED <<game_vars, rh_vars, sim_vars, cp_hole_cards, cp_board>>

PairNext == CallClassify

SpecPair == PairInit /\ [][PairNext]_vars

----------------------------------------------------------------------------
(* run_simulation (simulation.py): hands played one after the other, the
   result of each recorded in the two agents' statistics *)

SimStack == 3       \* starting_stack of both players, in chips

\* the two agent configurations, by name: different agents, or the same
\* agent on both sides (app.py picks both from AGENTS by the request's types)
AgentNames == { <<"TAG Agent", "Fish">>, <<"TAG Agent", "TAG Agent">> }

\* run_simulation before the first hand: both players on starting_stack
SimInit ==
    /\ GameInit({ [blinds |-> <<1, 2>>, stacks |-> <<SimStack, SimStack>>,
                   brain |-> "any"] })
    /\ NoRankHandCall
    /\ NoClassifyCall
    /\ \E names \in AgentNames : SimulationInit(names)

\* game.players = []; add_player(agent1...), add_player(agent2...): fresh
\* players on the stacks the last hand left, agent 1 on position
\* (hand_num - 1) % 2 and agent 2 on the other one
SimPlayers ==
    LET position1 == hands % 2
    IN  [i \in Seats |->
            NewPlayer(players[i].stack,
                      IF i = 1 THEN position1 ELSE 1 - position1,
                      players[i].brain_module)]

\* one iteration of the loop up to the first betting round of play_hand
SimStartHand ==
    /\ recorded = hands
    /\ StartHandWith(SimPlayers)
    /\ UNCHANGED sim_vars

\* the statistics of an agent after a hand its player ended with profit
Recorded(st, won, profit) ==
    [st EXCEPT !.hands_won = IF won THEN @ + 1 ELSE @,
               !.hands_lost = IF won THEN @ ELSE @ + 1,
               !.total_profit = @ + profit]

\* the rest of the iteration, after play_hand returned: the winner is told
\* from the loser by comparing winner.name with agent1_config.name
RecordHand ==
    /\ pc = "ready"
    /\ recorded < hands
    /\ LET agent1_won == agent_names[result.winner] = agent_names[1]
       IN  stats' = [i \in Seats |->
                Recorded(stats[i],
                         IF i = 1 THEN agent1_won ELSE ~agent1_won,
                         players[i].stack - stack_before[i])]
    /\ won_by' = [won_by EXCEPT ![result.winner] = @ + 1]
    /\ recorded' = recorded + 1
    /\ UNCHANGED <<game_vars, rh_vars, cp_vars, agent_names>>

SimNext ==
    \/ SimStartHand
    \/ BeginRound
    \/ SkipAllIn
    \/ CompleteRound
    \/ PolicyFold
    \/ PolicyCheck
    \/ PolicyCall
    \/ \E bet_size \in 0..MaxBet : PolicyRaise(bet_size)
    \/ AwardFold
    \/ DealFlop
    \/ DealTurn
    \/ DealRiver
    \/ Showdown
    \/ RecordHand

SpecSim == SimInit /\ [][SimNext]_vars

----------------------------------------------------------------------------
(* Properties *)

Stacks == players[1].stack + players[2].stack
StacksBefore == stack_before[1] + stack_before[2]

\* a betting round is running
InRound == pc \in {"round", "loop"}

\* the step in which betting_round returns True
ReturnsTrueStep ==
    /\ InRound
    /\ pc' \in {"after_preflop", "after_flop", "after_turn", "after_river"}

\* the step in which the policy is asked for a decision
DecisionStep == ndecisions' = ndecisions + 1

\* every player still in the rotation has bet exactly the bet-to-match
Matched(ps, to_match) ==
    \A i \in Seats : InRotation(ps, i) => ps[i].current_bet = to_match

SeatAt(position) == CHOOSE i \in Seats : players[i].position = position

\* C1: chip conservation.  At every step of every hand the two stacks plus
\* the pot equal the sum of the stacks before the hand, and once the hand is
\* over the two stacks alone equal that sum.
C1_ChipConservation ==
    /\ Stacks + pot = StacksBefore
    /\ pc = "ready" => Stacks = StacksBefore

\* a second hand has ended at a showdown that moved chips between the players
C1_Witness ==
    /\ pc = "ready"
    /\ hands = 2
    /\ game_phase = "showdown"
    /\ players[1].stack # stack_before[1]

\* C2: at a showdown between two active players whose (category, tiebreak)
\* results are equal, each player's stack grows by half of the pot.
C2_TieSplitsPot ==
    [][ ( /\ pc = "after_river"
          /\ ActiveSeats(players) = Seats
          /\ RankHand(players[1].hole_cards \o board)
               = RankHand(players[2].hole_cards \o board) )
        => \A i \in Seats : 2 * (players'[i].stack - players[i].stack) = pot
      ]_vars

\* C3: whenever betting_round returns True, every active player who is not
\* all-in has, at the moment of the return, a street bet equal to the
\* bet-to-match (the early return leaves the bets as they are; a return out
\* of the loop clears them, so the bets just before it are meant).
C3_ReturnTrueMatched ==
    [][ ReturnsTrueStep =>
          IF pc = "round" THEN Matched(players', current_bet')
                          ELSE Matched(players, current_bet)
      ]_vars

\* C4: when a round in which somebody acted is found complete (all bets
\* matched) and returns True, every player of the rotation who is still
\* active and not all-in has acted in the round, and has acted after the
\* other player's most recent raise.
C4_ActedAfterLastRaise ==
    [][ ( /\ pc = "loop"
          /\ ReturnsTrueStep
          /\ action_count' = action_count
          /\ ndecisions >= 1 )
        => \A i \in Range(action_order) :
              InRotation(players, i) => answered[i]
      ]_vars

\* a player folds in this step
FoldStep == \E i \in Seats : players[i].is_active /\ ~players'[i].is_active

\* C5: when the policy returns fold the acting player becomes inactive and
\* betting_round returns False at once: the fold changes no stack, bet or
\* pot, and after it no decision is requested and no street bet changes; the
\* next thing to happen is play_hand's award.
C5_FoldEndsRound ==
    [][ /\ FoldStep =>
            /\ \E i \in Seats :
                 players' = [players EXCEPT ![i].is_active = FALSE]
            /\ pot' = pot
            /\ current_bet' = current_bet
            /\ round_result' = "folded"
            /\ pc' = "folded"
            /\ DecisionStep
        /\ pc = "folded" =>
            /\ ndecisions' = ndecisions
            /\ last_decider' = last_decider
            /\ \A i \in Seats :
                 players'[i].current_bet = players[i].current_bet
            /\ current_bet' = current_bet
            /\ pc' = "ready"
      ]_vars

\* a player has folded on the turn, facing a raise
C5_Witness ==
    /\ pc = "folded"
    /\ phase = "turn"
    /\ last_raiser # 0
    /\ ~players[last_decider].is_active

\* C6: after a fold play_hand is over: the one remaining active player gets
\* the whole pot with description "opponent folded", nothing more is dealt
\* and no betting round is run.  With stacks 1000/1000 and blinds 5/10, a
\* button that folds as its first preflop action ends with 995 and leaves
\* the big blind with 1005.
C6_FoldEndsHand ==
    [][ pc = "folded" =>
          LET winner == CHOOSE i \in Seats : players[i].is_active
              loser == Other(winner)
          IN  /\ ActiveSeats(players) = {winner}
              /\ pc' = "ready"
              /\ result' = [winner |-> winner, amount_won |-> pot,
                            description |-> "opponent folded"]
              /\ players'[winner].stack = players[winner].stack + pot
              /\ players'[loser].stack = players[loser].stack
              /\ pot' = 0
              /\ board' = board
              /\ deck' = deck
              /\ game_phase' = game_phase
              /\ ndecisions' = ndecisions
              /\ ( ( /\ small_blind = 5 /\ big_blind = 10
                     /\ stack_before = <<1000, 1000>>
                     /\ phase = "preflop"
                     /\ ndecisions = 1
                     /\ players[loser].position = 1 )
                   => /\ players'[winner].stack = 1005
                      /\ players'[loser].stack = 995 )
      ]_vars

\* the button of the 1000/1000 game has folded its first preflop decision
\* and the big blind has been paid
C6_Witness ==
    /\ pc = "ready"
    /\ big_blind = 10
    /\ stack_before = <<1000, 1000>>
    /\ result.description = "opponent folded"
    /\ game_phase = "preflop"
    /\ ndecisions = 1
    /\ players[result.winner].position = 0
    /\ players[result.winner].stack = 1005

\* C7: from the posting of the blinds until the pot is awarded the pot never
\* decreases.
C7_PotNeverDecreases ==
    [][ pc' # "ready" => pot' >= pot ]_vars

\* the iteration limit that applies to the current loop iteration is exceeded
LimitExceededStep ==
    /\ pc = "loop"
    /\ action_count' = action_count + 1
    /\ IF players[CurrentPlayer].is_all_in
       THEN action_count' > Len(action_order) * SkipFactor
       ELSE action_count' > MaxActions

\* C8: a betting round that stops because an iteration limit of its loop was
\* exceeded stops with the fatal error, never with a normal return.
C8_LimitIsFatal ==
    [][ LimitExceededStep => pc' = "error" ]_vars

C10_AlternatingOrder ==
    [][ DecisionStep =>
          IF ndecisions = 0
          THEN last_decider' = SeatAt(IF phase = "preflop" THEN 1 ELSE 0)
          ELSE last_decider' # last_decider
      ]_vars

\* C10 amended: the first decision is as stated; later decisions alternate
\* for as long as neither player is all-in, and once a player is all-in
\* every further decision comes from the other player.
C10_OrderUntilAllIn ==
    [][ DecisionStep =>
          IF ndecisions = 0
          THEN last_decider' = SeatAt(IF phase = "preflop" THEN 1 ELSE 0)
          ELSE /\ (\A i \in Seats : ~players[i].is_all_in)
                     => last_decider' # last_decider
               /\ ~players[last_decider'].is_all_in
               /\ players[Other(last_decider)].is_all_in
                     => last_decider' = last_decider
      ]_vars

\* a fourth decision is being awaited in a round where nobody is all-in
C10_Witness ==
    /\ pc = "loop"
    /\ ndecisions = 3
    /\ \A i \in Seats : ~players[i].is_all_in
    /\ MustAct

AfterPcs == {"after_preflop", "after_flop", "after_turn", "after_river"}

\* both players are in the hand and at most one of them can still act
Frozen(ps) ==
    /\ \A i \in Seats : ps[i].is_active
    /\ Cardinality({i \in Seats : ~ps[i].is_all_in}) <= 1

\* C11: once a betting round has ended with both players active and at most
\* one of them not all-in, the rest of the hand asks nobody for a decision
\* and changes no stack and no pot; flop, turn and river are still dealt and
\* the showdown is evaluated on 5 board cards and 2 hole cards per player.
C11_AllInRunout ==
    [][ ( /\ Frozen(players)
          /\ pc \in AfterPcs \/ (pc = "round" /\ phase # "preflop") )
        => /\ ~DecisionStep
           /\ pc' \in AfterPcs \cup {"round", "ready"}
           /\ pc' # "ready" =>
                /\ \A i \in Seats : players'[i].stack = players[i].stack
                /\ pot' = pot
                /\ Frozen(players')
           /\ pc = "after_preflop" => Len(board') = 3
           /\ pc = "after_flop" => Len(board') = 4
           /\ pc = "after_turn" => Len(board') = 5
           /\ pc = "after_river" =>
                /\ pc' = "ready"
                /\ game_phase' = "showdown"
                /\ Len(board) = 5
                /\ \A i \in Seats : Len(players[i].hole_cards) = 2
                /\ result'.description =
                     HandName(RankHand(
                         players[result'.winner].hole_cards \o board).score)
      ]_vars

\* the turn's betting round has been skipped with one player all-in and the
\* other still holding chips
C11_Witness ==
    /\ pc = "after_turn"
    /\ Len(board) = 4
    /\ ndecisions = 0
    /\ Frozen(players)
    /\ \E i \in Seats : players[i].is_all_in /\ players[Other(i)].stack > 0

\* position of a street in the order preflop, flop, turn, river, showdown
StreetIndex(street) ==
    CASE street = "preflop" -> 0 [] street = "flop" -> 1
      [] street = "turn" -> 2    [] street = "river" -> 3
      [] street = "showdown" -> 4

\* the number of board cards that belongs to a street
BoardSize(street) ==
    CASE street = "preflop" -> 0 [] street = "flop" -> 3
      [] street = "turn" -> 4    [] street = "river" -> 5
      [] street = "showdown" -> 5

\* C12: inside one play_hand call the street identifier stays or moves to
\* the next street of preflop, flop, turn, river, showdown, never back and
\* never past a street, and the board holds 0, 3, 4, 5 cards on preflop,
\* flop, turn, river (and 5 at the showdown).
C12_StreetsForward ==
    [][ /\ Len(board) = BoardSize(game_phase)
        /\ Len(board') = BoardSize(game_phase')
        /\ pc # "ready" =>
             \/ game_phase' = game_phase
             \/ StreetIndex(game_phase') = StreetIndex(game_phase) + 1
        /\ game_phase' = "showdown" => game_phase \in {"river", "showdown"}
      ]_vars

\* a decision has been made in the river's betting round, five cards on the
\* board
C12_Witness ==
    /\ pc = "loop"
    /\ game_phase = "river"
    /\ phase = "river"
    /\ Len(board) = 5
    /\ ndecisions >= 1

\* the step in which play_hand returns
HandReturns == pc # "ready" /\ pc' = "ready"

\* C13: every play_hand call that returns leaves the pot at 0; the returned
\* amount_won is the pot as it was just before the award, and it is what the
\* award added to the winner's stack.
C13_PotAwardedAndZeroed ==
    [][ /\ HandReturns =>
             /\ pot' = 0
             /\ result'.amount_won = pot
             /\ players'[result'.winner].stack
                  = players[result'.winner].stack + pot
        /\ pc' = "ready" => pot' = 0
      ]_vars

\* a hand has returned after a fold that gave up a pot of 4 or more
C13_Witness ==
    /\ pc = "ready"
    /\ pot = 0
    /\ result.description = "opponent folded"
    /\ result.amount_won >= 4
    /\ players[result.winner].stack >= result.amount_won

\* category first, then the tiebreak vectors from their first entry on
StrictlyGreater(x, y) ==
    \/ x.score > y.score
    \/ /\ x.score = y.score
       /\ \E k \in DOMAIN x.tiebreakers :
            /\ k \in DOMAIN y.tiebreakers
            /\ x.tiebreakers[k] > y.tiebreakers[k]
            /\ \A j \in 1..(k - 1) : x.tiebreakers[j] = y.tiebreakers[j]

\* C14: at a showdown between two active players whose (category, tiebreak)
\* results differ, the player with the strictly greater result is returned
\* as the winner and receives the whole pot, at either list position and in
\* either seat.
C14_BetterHandWins ==
    [][ ( /\ pc = "after_river"
          /\ ActiveSeats(players) = Seats )
        => \A w \in Seats :
             StrictlyGreater(RankHand(players[w].hole_cards \o board),
                             RankHand(players[Other(w)].hole_cards \o board))
             => /\ result'.winner = w
                /\ players'[w].stack = players[w].stack + pot
                /\ players'[Other(w)].stack = players[Other(w)].stack
      ]_vars

\* the second player of the list has won a showdown with the better hand
\* while sitting in the big blind
C14_Witness ==
    /\ pc = "ready"
    /\ game_phase = "showdown"
    /\ result.winner = 2
    /\ players[2].position = 0
    /\ StrictlyGreater(RankHand(players[2].hole_cards \o board),
                       RankHand(players[1].hole_cards \o board))

\* how far play_hand has got: the place in its code, and inside a betting
\* round's loop the number of iterations counted so far
Progress ==
    LET street == StreetIndex(phase)
        place == CASE pc = "round" -> 3 * street
                   [] pc = "loop" -> 3 * street + 1
                   [] pc = "after_preflop" -> 2
                   [] pc = "after_flop" -> 5
                   [] pc = "after_turn" -> 8
                   [] pc = "after_river" -> 11
                   [] pc = "folded" -> 12
                   [] OTHER -> 13
    IN  place * (MaxActions + 2) + (IF pc = "loop" THEN action_count ELSE 0)

InHand == pc \notin {"ready", "error"}

\* C15: every betting round ends, whatever the policy returns: each loop
\* iteration either counts one more action or leaves the loop (True, False
\* or the overrun error), the count never passes MaxActions + 1, every step
\* of play_hand moves it forward, and play_hand is never stuck before it has
\* awarded the pot or raised the error.
C15_HandTerminates ==
    /\ [](InHand => ENABLED Next)
    /\ [][ InHand =>
          /\ InHand' => Progress' > Progress
          /\ action_count <= MaxActions
          /\ action_count' <= MaxActions + 1
          /\ pc = "loop" =>
               \/ pc' = "loop" /\ action_count' = action_count + 1
               \/ pc' \in AfterPcs /\ round_result' = "continue"
               \/ pc' = "folded" /\ round_result' = "folded"
               \/ pc' = "error" /\ action_count' = MaxActions + 1
          /\ pc' = "ready" =>
               /\ pot' = 0
               /\ result'.winner \in Seats
      ]_vars

\* a betting round is in its hundredth iteration
C15_Witness ==
    /\ pc = "loop"
    /\ action_count = MaxActions - 1

\* C20: a call by a player with street bet b and stack s against a
\* bet-to-match m leaves the player's street bet at min(m, b + s), adds to
\* the pot exactly what left the player's stack, keeps the bet-to-match, and
\* leaves the player all-in exactly when it took the whole stack.
C20_CallSemantics ==
    [][ PolicyCall =>
          LET cur == CurrentPlayer
              b == players[cur].current_bet
              s == players[cur].stack
              m == current_bet
          IN  /\ players'[cur].current_bet = Min(m, b + s)
              /\ pot' - pot = s - players'[cur].stack
              /\ pot' - pot = players'[cur].current_bet - b
              /\ current_bet' = m
              /\ players'[cur].is_all_in <=> (s - players'[cur].stack = s)
              /\ players'[Other(cur)] = players[Other(cur)]
      ]_vars

\* the last decision was a call for less than the bet-to-match that put the
\* caller all-in
C20_Witness ==
    /\ pc = "loop"
    /\ last_decider # 0
    /\ last_raiser = Other(last_decider)
    /\ players[last_decider].is_all_in
    /\ players[last_decider].current_bet < current_bet


\* the rank_hand call has returned or raised
RhDone == rh_result.status # "pending"
RhReturned == rh_result.status = "ok"
RhRanks == {rh_cards[i].rank : i \in DOMAIN rh_cards}
RhSuits == {rh_cards[i].suit : i \in DOMAIN rh_cards}

\* no card is listed twice in s; every card of h is listed in s
Distinct(s) == \A i, j \in DOMAIN s : i # j => s[i] # s[j]
Contains(s, h) == \A i \in DOMAIN h : \E j \in DOMAIN s : s[j] = h[i]

\* C16: rank_hand raises an error for fewer than five cards (the empty list
\* included), for a list with a card listed twice, and for hole cards that
\* are not all in the list; for five to seven distinct cards with no hole
\* cards, or with two hole cards out of the list, it returns a result
C16_Validation ==
    RhDone =>
        /\ ( \/ Len(rh_cards) < 5
             \/ ~Distinct(rh_cards)
             \/ /\ rh_hole_cards.given
                /\ ~Contains(rh_cards, rh_hole_cards.cards) )
           => rh_result.status = "error"
        /\ ( /\ Len(rh_cards) \in 5..7
             /\ Distinct(rh_cards)
             /\ \/ ~rh_hole_cards.given
                \/ /\ Len(rh_hole_cards.cards) = 2
                   /\ Distinct(rh_hole_cards.cards)
                   /\ Contains(rh_cards, rh_hole_cards.cards) )
           => RhReturned

\* a list of six cards with one card listed twice was rejected
C16_Witness ==
    /\ RhDone
    /\ Len(rh_cards) = 6
    /\ ~Distinct(rh_cards)
    /\ rh_result.status = "error"

\* the cards of a set, in deck order
SetList(S) == SelectSeq(EvalDeck, LAMBDA c : c \in S)

\* the greatest (category, tiebreak) among the five-card subsets of a set
BestOfSet(S) ==
    Let({ EvaluateFiveCards(SetList(T))
            : T \in {T \in SUBSET S : Cardinality(T) = 5} },
        LAMBDA scores :
            CHOOSE x \in scores :
                \A y \in scores : ~StrictlyGreater(y, x))

\* C17: for six or seven distinct cards, rank_hand returns the category and
\* tiebreak of the greatest five-card subset of the set of cards, whatever
\* the order of the list; when the cards hold both the wheel and a higher
\* straight, a straight result is the higher straight
C17_BestFiveOfSeven ==
    (RhReturned /\ Len(rh_cards) \in 6..7) =>
        /\ Score(rh_result.score, rh_result.tiebreakers)
              = BestOfSet(Range(rh_cards))
        /\ ({14, 2, 3, 4, 5, 6} \subseteq RhRanks /\ rh_result.score = 5)
              => rh_result.tiebreakers = <<6>>

\* seven cards listed from the highest deck position down, holding the
\* wheel and the straight to the six, were ranked as the straight to the six
C17_Witness ==
    /\ RhReturned
    /\ Len(rh_cards) = 7
    /\ {14, 2, 3, 4, 5, 6} \subseteq RhRanks
    /\ DeckIndex(rh_cards[1]) > DeckIndex(rh_cards[7])
    /\ rh_result.score = 5
    /\ rh_result.tiebreakers = <<6>>

\* C18: a five-card hand of ace, two, three, four, five is a straight flush
\* (category 9) when of one suit and a straight (category 5) otherwise, with
\* tiebreak [5]; five distinct ranks that are neither consecutive nor the
\* wheel are never a straight or a straight flush
C18_Wheel ==
    (RhReturned /\ Len(rh_cards) = 5) =>
        /\ RhRanks = {14, 2, 3, 4, 5} =>
              /\ rh_result.tiebreakers = <<5>>
              /\ rh_result.score = IF Cardinality(RhSuits) = 1 THEN 9 ELSE 5
        /\ ( /\ Cardinality(RhRanks) = 5
             /\ RhRanks # {14, 2, 3, 4, 5}
             /\ MaxOf(RhRanks) - MinOf(RhRanks) # 4 )
           => rh_result.score \notin {5, 9}

\* the wheel in spades was ranked a straight flush to the five
C18_Witness ==
    /\ RhReturned
    /\ Len(rh_cards) = 5
    /\ RhRanks = {14, 2, 3, 4, 5}
    /\ RhSuits = {"S"}
    /\ rh_result.score = 9
    /\ rh_result.tiebreakers = <<5>>


\* C19: for two hole cards and five board cards, board_chop is true exactly
\* when the five board cards alone rank as high as the greatest five-card
\* subset of all seven cards, whatever the hole cards and the order of the
\* list; hole_cards_play is its negation
C19_BoardChop ==
    (RhReturned /\ rh_hole_cards.given /\ Len(rh_cards) = 7) =>
        /\ rh_result.metadata.has_chop
        /\ rh_result.metadata.board_chop
              = ( EvaluateFiveCards(
                      SetList(Range(rh_cards) \ Range(rh_hole_cards.cards)))
                  = BestOfSet(Range(rh_cards)) )
        /\ rh_result.metadata.hole_cards_play
              = ~rh_result.metadata.board_chop

\* C21: a raise of requested size r by a player with street bet b and stack s
\* against a bet-to-match m leaves the player's street bet at
\* min(max(r, 2m), b + s), makes that bet the new bet-to-match, adds to the
\* pot exactly what left the player's stack, and records the player as the
\* last raiser.
C21_RaiseSemantics ==
    [][ \A r \in 0..MaxBet :
          PolicyRaise(r) =>
            LET cur == CurrentPlayer
                b == players[cur].current_bet
                s == players[cur].stack
                m == current_bet
            IN  /\ players'[cur].current_bet = Min(Max(r, 2 * m), b + s)
                /\ current_bet' = players'[cur].current_bet
                /\ pot' - pot = s - players'[cur].stack
                /\ last_raiser' = cur
                /\ players'[Other(cur)] = players[Other(cur)]
      ]_vars

\* the last decision was a raise at the minimum-raise floor, above the size
\* the policy asked for, that did not put the raiser all-in
C21_Witness ==
    /\ pc = "loop"
    /\ last_decider # 0
    /\ last_raiser = last_decider
    /\ ~players[last_decider].is_all_in
    /\ current_bet = players[last_decider].current_bet
    /\ current_bet > MaxBet

\* C22: from the moment a player is all-in until the pot is awarded, that
\* player is asked for no decision and the player's stack, active flag, hole
\* cards and all-in flag stay as they are; at the showdown an all-in player
\* with the strictly greater hand is the winner and is paid the pot.
C22_AllInFrozen ==
    [][ \A i \in Seats :
          /\ (InHand /\ players[i].is_all_in /\ pc' # "ready") =>
                /\ players'[i].stack = players[i].stack
                /\ players'[i].is_active = players[i].is_active
                /\ players'[i].hole_cards = players[i].hole_cards
                /\ players'[i].is_all_in
                /\ DecisionStep => last_decider' # i
          /\ ( /\ pc = "after_river"
               /\ ActiveSeats(players) = Seats
               /\ players[i].is_all_in
               /\ StrictlyGreater(RankHand(players[i].hole_cards \o board),
                                  RankHand(players[Other(i)].hole_cards
                                             \o board)) ) =>
                /\ result'.winner = i
                /\ players'[i].stack = players[i].stack + pot
      ]_vars

\* a player who was all-in for less than the other player's bet has won the
\* showdown of the second hand and holds the pot
C22_Witness ==
    /\ pc = "ready"
    /\ hands = 2
    /\ game_phase = "showdown"
    /\ result.description # "opponent folded"
    /\ players[result.winner].is_all_in
    /\ ~players[Other(result.winner)].is_all_in
    /\ players[result.winner].stack = result.amount_won

\* the step in which play_hand resets, posts the blinds and deals
BlindsStep == pc = "ready" /\ pc' = "round"

\* C23: at the start of every hand the button (position 1) posts
\* min(small blind, stack) and the big blind (position 0) posts
\* min(big blind, stack); the pot is then the sum of the two amounts posted,
\* the bet-to-match is the amount the big blind posted, and a player whose
\* blind took the whole stack is all-in.
C23_BlindPosting ==
    [][ BlindsStep =>
          LET button == SeatAt(1)
              bb == SeatAt(0)
              sb_posted == Min(small_blind, players[button].stack)
              bb_posted == Min(big_blind, players[bb].stack)
          IN  /\ players'[button].current_bet = sb_posted
              /\ players'[button].stack = players[button].stack - sb_posted
              /\ players'[bb].current_bet = bb_posted
              /\ players'[bb].stack = players[bb].stack - bb_posted
              /\ pot' = sb_posted + bb_posted
              /\ current_bet' = bb_posted
              /\ \A i \in Seats :
                    players'[i].stack = 0 => players'[i].is_all_in
      ]_vars

\* the blinds of the second hand are posted: the big blind had less than the
\* big blind and is all-in for it, the button posted the small blind in full
C23_Witness ==
    /\ pc = "round"
    /\ phase = "preflop"
    /\ hands = 2
    /\ players[SeatAt(0)].is_all_in
    /\ players[SeatAt(0)].current_bet < big_blind
    /\ players[SeatAt(0)].current_bet > 0
    /\ ~players[SeatAt(1)].is_all_in
    /\ players[SeatAt(1)].current_bet = small_blind
    /\ pot = small_blind + players[SeatAt(0)].current_bet

\* C24: from the posting of the blinds until the pot is awarded, a player's
\* all-in flag is set exactly when that player's stack is 0.
C24_AllInIffZeroStack ==
    InHand => \A i \in Seats : players[i].is_all_in <=> players[i].stack = 0

\* after the flop a raise has taken the raiser's last chips: the raiser is
\* all-in with no stack, the other player still has chips and is not all-in
C24_Witness ==
    /\ pc = "loop"
    /\ phase = "flop"
    /\ last_raiser # 0
    /\ players[last_raiser].is_all_in
    /\ players[last_raiser].stack = 0
    /\ ~players[Other(last_raiser)].is_all_in
    /\ players[Other(last_raiser)].stack > 0

\* the cards that are in players' hands and on the board
CardsOut(ps, b) == ps[1].hole_cards \o ps[2].hole_cards \o b

\* cards dealt in a hand that has n board cards: four hole cards, and with
\* the flop, the turn and the river one burn card each
CardsDealt(n) == 4 + (IF n = 0 THEN 0 ELSE n + (n - 2))

\* C25: every hand starts from the full deck of 52 distinct cards; a card
\* dealt in a hand (hole, burn or board card) leaves the deck and is not dealt
\* again, so the four hole cards and the board cards are pairwise distinct
\* and the deck holds 52 minus the number of cards dealt in the hand.
C25_DeckInvariant ==
    /\ [](hands > 0 =>
            LET out == CardsOut(players, board)
            IN  /\ Len(deck) = 52 - CardsDealt(Len(board))
                /\ Len(out) = 4 + Len(board)
                /\ \A i, j \in DOMAIN out : i # j => out[i] # out[j]
                /\ \A i \in DOMAIN out :
                      \A j \in DOMAIN deck : deck[j] # out[i])
    /\ [][ /\ BlindsStep =>
                /\ Len(deck') + 4 = 52
                /\ Cardinality(Range(CardsOut(players', board'))
                                 \cup Range(deck')) = 52
                /\ Range(CardsOut(players', board')) \cup Range(deck')
                      = Range(FullDeck)
           /\ (InHand /\ deck' # deck) =>
                /\ Len(deck') < Len(deck)
                /\ deck' = SubSeq(deck, 1, Len(deck'))
                /\ Range(CardsOut(players', board'))
                     \ Range(CardsOut(players, board))
                     \subseteq Range(deck) \ Range(deck')
      ]_vars

\* the second hand has been dealt out to the river: five board cards, four
\* hole cards and three burn cards have left the deck
C25_Witness ==
    /\ hands = 2
    /\ Len(board) = 5
    /\ Len(deck) = 40
    /\ Cardinality(Range(CardsOut(players, board))) = 9

\* the players that are active and not all-in
CanAct(ps) == {i \in Seats : ps[i].is_active /\ ~ps[i].is_all_in}

\* C26: a betting round that starts with at most one player active and not
\* all-in is a no-op: it returns True, asks nobody for a decision and leaves
\* the pot and both players' stacks, active flags and all-in flags unchanged.
C26_NoOpRound ==
    [][ (pc = "round" /\ Cardinality(CanAct(players)) <= 1) =>
          /\ round_result' = "continue"
          /\ pc' = AfterStreet(phase)
          /\ ~DecisionStep
          /\ ndecisions' = 0
          /\ pot' = pot
          /\ \A i \in Seats :
                /\ players'[i].stack = players[i].stack
                /\ players'[i].is_active = players[i].is_active
                /\ players'[i].is_all_in = players[i].is_all_in
      ]_vars

\* the turn's betting round has returned without a decision: one player is
\* all-in, the other still has chips, and there are chips in the pot
C26_Witness ==
    /\ pc = "after_turn"
    /\ phase = "turn"
    /\ round_result = "continue"
    /\ ndecisions = 0
    /\ Cardinality(CanAct(players)) = 1
    /\ pot > 0

\* the ranks of the two hole cards, and the ranks on the board
CpHoleRanks == {cp_hole_cards[i].rank : i \in DOMAIN cp_hole_cards}
CpBoardRanks == {cp_board[i].rank : i \in DOMAIN cp_board}

\* the k-th highest of the distinct ranks on the board is the rank of a hole
\* card
CpMatches(k) ==
    \E r \in CpHoleRanks \cap CpBoardRanks :
        Cardinality({q \in CpBoardRanks : q > r}) = k - 1

\* C27: for two hole cards of different ranks and a board of 3 to 5 cards,
\* classify_pair_strength returns top_pair when a hole card has the highest
\* board rank, otherwise second_pair when one has the second-highest distinct
\* board rank, otherwise third_pair for the third-highest, otherwise
\* underpair for a lower board rank, and no_pair when no hole card's rank is
\* on the board; the order of the two hole cards makes no difference.
C27_PairStrength ==
    ( /\ cp_result # "pending"
      /\ Cardinality(CpHoleRanks) = 2
      /\ Len(cp_board) \in 3..5 ) =>
        cp_result =
            IF CpMatches(1) THEN "top_pair"
            ELSE IF CpMatches(2) THEN "second_pair"
            ELSE IF CpMatches(3) THEN "third_pair"
            ELSE IF CpHoleRanks \cap CpBoardRanks # {} THEN "underpair"
            ELSE "no_pair"

\* C28: from the posting of the blinds until the pot is awarded, the pot is
\* the sum of both players' total_invested, and each player's stack plus
\* total_invested is the stack the player started the hand with.
C28_PotIsInvested ==
    InHand =>
        /\ pot = players[1].total_invested + players[2].total_invested
        /\ \A i \in Seats :
              players[i].stack + players[i].total_invested = stack_before[i]

\* a later street on which both players have put in more than a blind and
\* one of them has bet on this street after investing on an earlier one
C28_Witness ==
    /\ pc = "loop"
    /\ phase = "turn"
    /\ \A i \in Seats : players[i].total_invested > big_blind
    /\ \E i \in Seats :
          /\ players[i].current_bet > 0
          /\ players[i].total_invested > players[i].current_bet

\* the bets of the current street are on the table: the blinds are posted
\* or the street's bets have been reset, and the round has not returned
StreetBetting == pc = "loop" \/ (pc = "round" /\ phase = "preflop")

\* C29: during every betting round, from the posting of the blinds on, the
\* bet-to-match is at least every player's street bet and equal to the
\* largest of them, and it never decreases within a street.
C29_BetToMatchIsLargest ==
    /\ [](StreetBetting =>
            /\ \A i \in Seats : players[i].current_bet <= current_bet
            /\ \E i \in Seats : players[i].current_bet = current_bet)
    /\ [][ (StreetBetting /\ StreetBetting' /\ phase' = phase) =>
              current_bet' >= current_bet ]_vars

\* C30: after run_simulation has played its hands, whatever the two agent
\* configurations are (two agents of the same name included), each agent's
\* hands_won is the number of hands its player won, the two hands_won
\* counts sum to the number of hands played, and the two total_profit
\* values sum to zero.
C30_StatsMatchWinners ==
    (pc = "ready" /\ recorded = hands) =>
        /\ \A i \in Seats : stats[i].hands_won = won_by[i]
        /\ stats[1].hands_won + stats[2].hands_won = recorded
        /\ stats[1].total_profit + stats[2].total_profit = 0

====
